---------------------------- MODULE Spec2Model ----------------------------
(***************************************************************************)
(* Model of the upstream clients and the analytics of the MCP proxies:     *)
(*   src/unnamed/part_000  (Helius analytics server: rpc, heliusGET,       *)
(*                          analyzers, scoreToken)                         *)
(*   src/index.js          (Helius proxy: rpcCall, dasGET, dasPOST)        *)
(*   src/unnamed/part_002  (QuickNode proxy: qnRpc)                        *)
(*                                                                         *)
(* Numbers.  JavaScript doubles are modelled by exact integers; a quotient *)
(* a/b is kept as the pair [num, den] and compared by cross               *)
(* multiplication, and a division by zero yields the JavaScript values     *)
(* NaN / Infinity.  Floating point rounding is not modelled.               *)
(***************************************************************************)
EXTENDS Integers, Sequences, FiniteSets, TLC

(***************************************************************************)
(* Bounds and configuration                                                *)
(***************************************************************************)
\* RPC_MAX_RETRIES is read from the environment (default 3 / 3 / 2).
RPC_MAX_RETRIES == 2
\* RATE_CONCURRENCY is read from the environment (default 1).
RATE_CONCURRENCY == 1
\* number of concurrent tool invocations that are modelled
NumCalls == 2

Calls == 1..NumCalls
None == "none"

Min(a, b) == IF a <= b THEN a ELSE b
Max(a, b) == IF a >= b THEN a ELSE b

(***************************************************************************)
(* UPSTREAM CLIENTS                                                        *)
(***************************************************************************)
\* the client functions of the three programs
RetryKinds == {"rpc", "rpcCall", "qnRpc"}
RestKinds == {"heliusGET", "dasGET", "dasPOST"}
Kinds == RetryKinds \cup RestKinds

\* the program (process) a client function belongs to
Program(k) ==
  CASE k \in {"rpc", "heliusGET"} -> "part_000"
    [] k \in {"rpcCall", "dasGET", "dasPOST"} -> "index.js"
    [] OTHER -> "part_002"

Programs == {"part_000", "index.js", "part_002"}

\* the functions that dispatch through limiter.schedule(...)
UsesLimiter(k) == k \in {"rpc", "heliusGET", "rpcCall", "dasGET", "dasPOST"}

\* the functions that arm an abort timer, and where: before the job is
\* queued (rpc, qnRpc) or inside the scheduled job (fetchWithTimeout)
TimerAtLoopTop(k) == k \in {"rpc", "qnRpc"}
TimerInJob(k) == k \in {"rpcCall", "dasGET", "dasPOST"}

\* what one attempt can end with
ErrKinds == {"http", "envelope", "network", "timeout"}
\* the response a resolved fetch carries
Responses == {"ok", "http", "envelope"}

VARIABLES
  calls,    \* per invocation: the locals of the running client function
  running,  \* per program: jobs the limiter is executing (Bottleneck)
  tool      \* the analyzer invocation: [op, args, ret] (request-scoped data)

clientVars == <<calls, running>>

\* no error caught / nothing returned yet
NoErr == <<>>
NoResult == <<>>
\* the value a function returns when it runs off its end
Undefined == <<"undefined", 0>>

IdleCall ==
  [kind |-> None, pc |-> "idle", i |-> 0, attempts |-> 0, timer |-> "off",
   slot |-> FALSE, resp |-> None, lastErr |-> NoErr, attemptErr |-> NoErr,
   thrown |-> NoErr, result |-> NoResult, delays |-> <<>>]

\* the error object an attempt produces: its cause and the attempt it is of
Err(e, n) == <<e, n>>

\* part_000:64  setTimeout(res, 250 * (i + 1))
rpcDelay(i) == 250 * (i + 1)
\* index.js:83  Math.min(250 * attempt, 1500)
rpcCallDelay(attempt) == Min(250 * attempt, 1500)
\* part_002:53  350 * (attempt + 1)
qnRpcDelay(attempt) == 350 * (attempt + 1)

\* (mutant) gives up one attempt early
rpcExhausted_early(i) == i + 1 >= RPC_MAX_RETRIES
\* part_000:63  if (i === RPC_MAX_RETRIES) throw e
rpcExhausted(i) == i = RPC_MAX_RETRIES
\* index.js:82  if (attempt > RPC_MAX_RETRIES) throw e   (after attempt += 1)
rpcCallExhausted(attempt) == attempt > RPC_MAX_RETRIES
\* part_002:52  if (attempt === RPC_MAX_RETRIES) break
qnRpcExhausted(attempt) == attempt = RPC_MAX_RETRIES

\* (mutant) keeps the first error instead of the latest
qnRpcLastErr_first(old, e) == IF old = NoErr THEN e ELSE old
\* part_002:51  lastErr = e
qnRpcLastErr(old, e) == e

\* The catch block of the function: the attempt of call record r failed
\* with cause e.  Returns the new call record.
Catch(r, e) ==
  LET err == Err(e, r.attempts)
      \* attemptErr: the error of the attempt that ended the call (kept
      \* for the record only when the call fails)
      f == [r EXCEPT !.attemptErr = err, !.resp = None]
  IN CASE r.kind = "rpc" ->
            \* the timer t is not cleared on this path; it fires later on
            \* an AbortController nobody listens to any more
            IF rpcExhausted(r.i)
              THEN [f EXCEPT !.pc = "failed", !.thrown = err, !.timer = "off"]
              ELSE [f EXCEPT !.pc = "sleeping", !.timer = "off",
                             !.attemptErr = NoErr,
                             !.delays = Append(@, rpcDelay(r.i))]
       [] r.kind = "rpcCall" ->
            IF rpcCallExhausted(r.i + 1)
              THEN [f EXCEPT !.i = r.i + 1, !.pc = "failed", !.thrown = err,
                             !.timer = "off"]
              ELSE [f EXCEPT !.i = r.i + 1, !.pc = "sleeping", !.timer = "off",
                             !.attemptErr = NoErr,
                             !.delays = Append(@, rpcCallDelay(r.i + 1))]
       [] r.kind = "qnRpc" ->
            LET le == qnRpcLastErr(r.lastErr, err) IN
            IF qnRpcExhausted(r.i)
              THEN \* break; finally clearTimeout; throw lastErr
                   [f EXCEPT !.lastErr = le, !.pc = "failed", !.thrown = le,
                             !.timer = "off"]
              ELSE [f EXCEPT !.lastErr = le, !.pc = "sleeping",
                             !.timer = "off", !.attemptErr = NoErr,
                             !.delays = Append(@, qnRpcDelay(r.i))]
       [] OTHER ->
            \* heliusGET, dasGET, dasPOST: no try/catch, the error
            \* propagates to the analyzer / tool handler
            [f EXCEPT !.pc = "failed", !.thrown = err, !.timer = "off"]

\* The function starts one attempt (top of the loop body, or the single
\* request of a REST helper).  Returns the new call record; a qnRpc request
\* is dispatched at once, the others wait in the limiter's queue.
BeginAttempt(r) ==
  IF UsesLimiter(r.kind)
    THEN [r EXCEPT !.pc = "queued",
                   !.timer = IF TimerAtLoopTop(r.kind) THEN "armed" ELSE "off"]
    ELSE [r EXCEPT !.pc = "fetching", !.attempts = @ + 1, !.timer = "armed"]

\* a tool handler calls client function k
Invoke(c, k) ==
  /\ calls[c].pc = "idle"
  /\ calls' = [calls EXCEPT ![c] = BeginAttempt([IdleCall EXCEPT !.kind = k])]
  /\ UNCHANGED running

\* Bottleneck starts the queued job of call c: a slot of maxConcurrent is
\* taken and fetch(...) is called.  (minTime / reservoir only postpone
\* this step.)  A signal that was aborted while the job was queued makes
\* fetch reject at once, without a request.
Acquire(c) ==
  LET r == calls[c] p == Program(r.kind) IN
  /\ r.pc = "queued"
  /\ running[p] < Max(1, RATE_CONCURRENCY)
  /\ IF r.timer = "fired"
       THEN /\ calls' = [calls EXCEPT ![c] =
                           Catch([r EXCEPT !.attempts = @ + 1], "timeout")]
            /\ UNCHANGED running
       ELSE /\ calls' = [calls EXCEPT ![c] =
                           [r EXCEPT !.pc = "fetching", !.slot = TRUE,
                                     !.attempts = @ + 1,
                                     !.timer = IF TimerInJob(r.kind)
                                                 THEN "armed" ELSE @]]
            /\ running' = [running EXCEPT ![p] = @ + 1]

\* the limiter's counter after the job of call record r has settled
Release(r) ==
  IF r.slot THEN [running EXCEPT ![Program(r.kind)] = @ - 1] ELSE running

\* fetch resolves with a response (headers received): the job is over
FetchResolve(c, resp) ==
  LET r == calls[c]
      \* rpc: clearTimeout(t); fetchWithTimeout: finally clearTimeout(id);
      \* qnRpc keeps its timer until the body is parsed
      s == [r EXCEPT !.slot = FALSE, !.resp = resp,
                     !.timer = IF r.kind = "qnRpc" THEN @ ELSE "off"]
  IN
  /\ r.pc = "fetching"
  /\ running' = Release(r)
  /\ calls' = [calls EXCEPT ![c] =
       IF r.kind \in {"rpc", "heliusGET"} /\ resp = "http"
         THEN Catch(s, "http")          \* if (!r.ok) throw, before r.json()
         ELSE [s EXCEPT !.pc = "reading"]]

\* fetch rejects with a network failure
FetchReject(c) ==
  LET r == calls[c] IN
  /\ r.pc = "fetching"
  /\ running' = Release(r)
  /\ calls' = [calls EXCEPT ![c] = Catch([r EXCEPT !.slot = FALSE], "network")]

\* the abort timer of call c fires
TimerFire(c) ==
  LET r == calls[c] IN
  /\ r.timer = "armed"
  /\ CASE r.pc = "queued" ->
            /\ calls' = [calls EXCEPT ![c] = [r EXCEPT !.timer = "fired"]]
            /\ UNCHANGED running
       [] r.pc \in {"fetching", "reading"} ->
            /\ running' = Release(r)
            /\ calls' = [calls EXCEPT ![c] =
                           Catch([r EXCEPT !.slot = FALSE], "timeout")]
       [] OTHER -> FALSE

\* the body has arrived and is parsed: r.json() / r.text() + JSON.parse
ReadBody(c) ==
  LET r == calls[c]
      ok == [r EXCEPT !.pc = "done", !.result = <<"result", r.attempts>>,
                      !.timer = "off", !.resp = None]
  IN
  /\ r.pc = "reading"
  /\ UNCHANGED running
  /\ calls' = [calls EXCEPT ![c] =
       CASE r.kind \in {"rpc", "rpcCall", "qnRpc"} ->
              IF r.resp = "ok" THEN ok ELSE Catch(r, r.resp)
         [] r.kind \in {"dasGET", "dasPOST"} ->
              \* only r.ok is looked at; any body is returned as data
              IF r.resp = "http" THEN Catch(r, "http") ELSE ok
         [] OTHER -> ok]

\* reading the body fails (connection lost while streaming)
BodyReject(c) ==
  LET r == calls[c] IN
  /\ r.pc = "reading"
  /\ UNCHANGED running
  /\ calls' = [calls EXCEPT ![c] = Catch(r, "network")]

\* the back-off sleep is over: next iteration of the retry loop
Wake(c) ==
  LET r == calls[c] IN
  /\ r.pc = "sleeping"
  /\ UNCHANGED running
  /\ calls' = [calls EXCEPT ![c] =
       CASE r.kind = "rpcCall" -> BeginAttempt(r)      \* while (true)
         [] r.i + 1 <= RPC_MAX_RETRIES ->              \* for (...; i <= MAX; i++)
              BeginAttempt([r EXCEPT !.i = @ + 1])
         [] r.kind = "rpc" ->
              \* the loop ends: the function returns undefined
              [r EXCEPT !.i = @ + 1, !.pc = "done", !.result = Undefined]
         [] OTHER ->
              \* qnRpc: throw lastErr after the loop
              [r EXCEPT !.i = @ + 1, !.pc = "failed", !.thrown = r.lastErr]]

ClientInit ==
  /\ calls = [c \in Calls |-> IdleCall]
  /\ running = [p \in Programs |-> 0]

ClientNext ==
  /\ UNCHANGED tool
  /\ \E c \in Calls :
       \/ \E k \in Kinds : Invoke(c, k)
       \/ Acquire(c)
       \/ \E resp \in Responses : FetchResolve(c, resp)
       \/ FetchReject(c)
       \/ TimerFire(c)
       \/ ReadBody(c)
       \/ BodyReject(c)
       \/ Wake(c)

(***************************************************************************)
(* NUMBERS                                                                 *)
(* A JavaScript number is the exact fraction [num, den].  den > 0 for a    *)
(* finite number; the values a division by zero produces are NaN = 0/0 and *)
(* Infinity = 1/0 (all amounts that are divided here are non-negative).    *)
(***************************************************************************)
Q(n, d) == [num |-> n, den |-> d]
Num(n) == Q(n, 1)
NaN == Q(0, 0)
Infinity == Q(1, 0)
IsFinite(x) == x.den # 0
IsZero(x) == IsFinite(x) /\ x.num = 0
Abs(n) == IF n < 0 THEN -n ELSE n

\* a / b
JsDiv(a, b) ==
  CASE a = NaN \/ b = NaN -> NaN
    [] a = Infinity -> IF b = Infinity THEN NaN ELSE Infinity
    [] b = Infinity -> Num(0)
    [] b.num = 0 -> IF a.num = 0 THEN NaN ELSE Infinity
    [] OTHER -> Q(a.num * b.den, a.den * b.num)

\* a * k for an integer k > 0
JsTimes(a, k) == IF IsFinite(a) THEN Q(a.num * k, a.den) ELSE a

\* a + b
JsAdd(a, b) ==
  CASE a = NaN \/ b = NaN -> NaN
    [] a = Infinity \/ b = Infinity -> Infinity
    [] a.den = b.den -> Q(a.num + b.num, a.den)
    [] OTHER -> Q(a.num * b.den + b.num * a.den, a.den * b.den)

\* a <= b  (any comparison with NaN is false)
JsLeq(a, b) ==
  CASE a = NaN \/ b = NaN -> FALSE
    [] b = Infinity -> TRUE
    [] a = Infinity -> FALSE
    [] OTHER -> a.num * b.den <= b.num * a.den

\* a > b
JsGt(a, b) ==
  CASE a = NaN \/ b = NaN -> FALSE
    [] a = Infinity -> b # Infinity
    [] b = Infinity -> FALSE
    [] OTHER -> a.num * b.den > b.num * a.den

\* the condition  x ? ... : ...  and  x || ...  on a number
Truthy(x) == x # NaN /\ ~IsZero(x)

RECURSIVE Pow10(_)
\* 10 ** dec
Pow10(d) == IF d = 0 THEN 1 ELSE 10 * Pow10(d - 1)

\* part_000:79  Number(amountBN) / 10 ** dec
uiFromRaw(amount, dec) == Q(amount, Pow10(dec))

(***************************************************************************)
(* HOLDER AND LIQUIDITY ANALYZERS                                          *)
(***************************************************************************)
\* longest account list one getProgramAccounts answer carries in the model
MaxRows == 2

Owners == {"alice", "locker"}
\* an optional value: <<>> when absent / null, <<v>> when present
Absent == <<>>
Opt(S) == {Absent} \cup {<<v>> : v \in S}
\* tokenAmount.uiAmount as the upstream reports it (null or a number)
UiAmounts == Opt({0, 1, 3, 6})
\* a getProgramAccounts row: without parsed info, or owner and uiAmount
NoInfo == [info |-> FALSE, owner |-> "", uiAmount |-> Absent]
Rows ==
  {NoInfo} \cup
  {[info |-> TRUE, owner |-> o, uiAmount |-> u] : o \in Owners, u \in UiAmounts}

SeqsUpTo(S, n) == UNION {[1..k -> S] : k \in 0..n}

\* account lists with more than ten holders: balances in scrambled order
\* (one of them 0), and balances with many ties
ManyHolders == 12
LongRowLists ==
  { [k \in 1..ManyHolders |->
       [info |-> TRUE, owner |-> IF k % 2 = 0 THEN "alice" ELSE "locker",
        uiAmount |-> <<(k * 5) % 7>>]],
    [k \in 1..ManyHolders |->
       [info |-> TRUE, owner |-> "alice", uiAmount |-> <<1 + (k % 2)>>]] }

\* the answer of getTokenSupply: raw amount and decimals
Supplies == {[amount |-> a, decimals |-> d] : a \in {0, 5, 10}, d \in {0, 1}}

\* part_000:87-91  getMintSupply, given the upstream's answer
getMintSupply(s) ==
  [amount |-> s.amount, decimals |-> s.decimals,
   ui |-> uiFromRaw(s.amount, s.decimals)]

\* Number(info.tokenAmount?.uiAmount || 0)
uiOf(row) == IF row.uiAmount = Absent THEN 0 ELSE row.uiAmount[1]

RECURSIVE InsertDesc(_, _)
\* x goes behind every element that is not smaller (Array.prototype.sort
\* is stable and the comparator is b.ui - a.ui)
InsertDesc(x, sorted) ==
  IF sorted = <<>> THEN <<x>>
  ELSE IF Head(sorted).ui >= x.ui
         THEN <<Head(sorted)>> \o InsertDesc(x, Tail(sorted))
         ELSE <<x>> \o sorted

\* (mutant) the list left in the upstream's order
SortDesc_unsorted(items) == items
RECURSIVE SortDesc(_)
\* part_000:185  items.sort((a,b)=>b.ui-a.ui)
SortDesc(items) ==
  IF items = <<>> THEN <<>>
  ELSE InsertDesc(items[Len(items)], SortDesc(SubSeq(items, 1, Len(items) - 1)))

RECURSIVE PositiveItems(_)
\* part_000:180-184  the rows with info and ui > 0, as {owner, ui}
PositiveItems(rows) ==
  IF rows = <<>> THEN <<>>
  ELSE LET row == Head(rows) rest == PositiveItems(Tail(rows)) IN
       IF row.info /\ uiOf(row) > 0
         THEN <<[owner |-> row.owner, ui |-> uiOf(row)]>> \o rest
         ELSE rest

\* (mutant) the division without the zero-supply guard
pctOfSupply_unguarded(ui, supUi) == JsTimes(JsDiv(Num(ui), supUi), 100)
\* part_000:186  sup.ui ? (x.ui/sup.ui)*100 : 0
pctOfSupply(ui, supUi) ==
  IF Truthy(supUi) THEN JsTimes(JsDiv(Num(ui), supUi), 100) ELSE Num(0)

RECURSIVE SumPct(_)
\* part_000:188  reduce((s,x)=>s+x.pct_of_supply, 0)
SumPct(top) ==
  IF top = <<>> THEN Num(0)
  ELSE JsAdd(SumPct(SubSeq(top, 1, Len(top) - 1)), top[Len(top)].pct_of_supply)

\* part_000:173-190  topHolders, given the three upstream answers
topHolders(v1, v2, supply, limit) ==
  LET sup == getMintSupply(supply)
      items == SortDesc(PositiveItems(v1 \o v2))
      top == [k \in 1..Min(limit, Len(items)) |->
                [rank |-> k, owner |-> items[k].owner, amount |-> items[k].ui,
                 pct_of_supply |-> pctOfSupply(items[k].ui, sup.ui)]]
      top1 == IF top # <<>> /\ Truthy(top[1].pct_of_supply)
                THEN top[1].pct_of_supply ELSE Num(0)
      top10 == SumPct(SubSeq(top, 1, Min(10, Len(top))))
  IN [supply |-> sup.ui, total_accounts |-> Len(items), top |-> top,
      concentration_top1_pct |-> top1, concentration_top10_pct |-> top10]

RECURSIVE LockedSum(_, _)
\* part_000:157-161  sum of uiAmount over the rows owned by a locker
LockedSum(rows, lockerOwners) ==
  IF rows = <<>> THEN 0
  ELSE LET row == Head(rows) rest == LockedSum(Tail(rows), lockerOwners) IN
       IF row.info /\ row.owner \in lockerOwners THEN uiOf(row) + rest ELSE rest

\* (mutant) the division without the zero-supply guard
lockedPct_unguarded(locked, supUi) == JsTimes(JsDiv(Num(locked), supUi), 100)
\* part_000:162  sup.ui ? (locked / sup.ui) * 100 : 0
lockedPct(locked, supUi) ==
  IF Truthy(supUi) THEN JsTimes(JsDiv(Num(locked), supUi), 100) ELSE Num(0)

\* part_000:151-163  lpLockedPercent, given the three upstream answers
lpLockedPercent(v1, v2, supply, lockerOwners) ==
  LET sup == getMintSupply(supply)
      locked == LockedSum(v1 \o v2, lockerOwners)
  IN [lp_total_supply |-> sup.ui, locked_ui |-> locked,
      locked_pct |-> lockedPct(locked, sup.ui)]

NoTool == [op |-> None, args |-> <<>>, ret |-> <<>>]

\* metrics.top_holders: limit is optional, in [1,100]; topHolders(mint, limit||20)
TopHolders ==
  /\ tool.op = None
  /\ \E v1 \in SeqsUpTo(Rows, MaxRows) \cup LongRowLists,
        v2 \in SeqsUpTo(Rows, 1),
        supply \in Supplies, limit \in Opt({1, 2}) :
       tool' = [op |-> "topHolders",
                args |-> [v1 |-> v1, v2 |-> v2, supply |-> supply, limit |-> limit],
                ret |-> topHolders(v1, v2, supply,
                                   IF limit = Absent THEN 20 ELSE limit[1])]
  /\ UNCHANGED clientVars

\* metrics.lp_locked_percent: lpLockedPercent(lp_mint, lockerOwners||[])
LpLockedPercent ==
  /\ tool.op = None
  /\ \E v1 \in SeqsUpTo(Rows, MaxRows), v2 \in SeqsUpTo(Rows, 1),
        supply \in Supplies, lockers \in Opt({{}, {"locker"}}) :
       tool' = [op |-> "lpLockedPercent",
                args |-> [v1 |-> v1, v2 |-> v2, supply |-> supply,
                          lockerOwners |-> lockers],
                ret |-> lpLockedPercent(v1, v2, supply,
                                        IF lockers = Absent THEN {} ELSE lockers[1])]
  /\ UNCHANGED clientVars

(***************************************************************************)
(* ACTIVITY AGGREGATOR                                                     *)
(***************************************************************************)
\* most addresses scanned and most window lengths passed in one call
MaxAddresses == 2
MaxWindows == 3

USDC_MINT == "USDC"
\* Math.floor(Date.now()/1000) at the time of the call
Clock == {600}
\* it.blockTime of a history record (seconds), absent or 0 on some records
BlockTimes == Opt({0, 400, 480, 570})
\* token-transfer legs: mint, tokenAmount (null or a number), the two
\* user accounts ("" when the field is missing)
Leg(m, a, f, t) ==
  [mint |-> m, tokenAmount |-> a, fromUserAccount |-> f, toUserAccount |-> t]
\* it.tokenTransfers of a history record
TransferLists ==
  { <<>>,
    <<Leg(USDC_MINT, <<5>>, "alice", "bob")>>,
    <<Leg(USDC_MINT, <<-2>>, "bob", ""), Leg("OTHER", <<7>>, "", "alice")>>,
    <<Leg(USDC_MINT, Absent, "carol", "carol")>> }
\* a record of the parsed transaction history
Txs == {[blockTime |-> b, tokenTransfers |-> l] :
          b \in BlockTimes, l \in TransferLists}
\* the page heliusGET returns for one address
Pages == SeqsUpTo(Txs, 1)
\* window lengths in minutes (z.array(z.number()))
WindowLengths == {1, 3, 8}

Range(seq) == {seq[k] : k \in DOMAIN seq}

\* Math.abs(Number(t.tokenAmount||0))
absAmount(t) == IF t.tokenAmount = Absent THEN 0 ELSE Abs(t.tokenAmount[1])

RECURSIVE addTransfers(_, _, _)
\* part_000:209-213  the legs of one record are added to window w
addTransfers(st, w, legs) ==
  IF legs = <<>> THEN st
  ELSE LET t == Head(legs)
           vol == IF t.mint = USDC_MINT
                    THEN st.results[w].volume_usdc + absAmount(t)
                    ELSE st.results[w].volume_usdc
           actors == st.actorSets[w]
                     \cup (IF t.fromUserAccount # "" THEN {t.fromUserAccount} ELSE {})
                     \cup (IF t.toUserAccount # "" THEN {t.toUserAccount} ELSE {})
       IN addTransfers([results |-> [st.results EXCEPT ![w].volume_usdc = vol],
                        actorSets |-> [st.actorSets EXCEPT ![w] = actors]],
                       w, Tail(legs))

RECURSIVE forWindows(_, _, _, _)
\* part_000:206-215  for (const w of windowsMinutes) if (dtMin <= w) ...
forWindows(st, it, dtMin, ws) ==
  IF ws = <<>> THEN st
  ELSE LET w == Head(ws) IN
       IF JsLeq(dtMin, Num(w))
         THEN forWindows(
                addTransfers([st EXCEPT !.results[w].tx = @ + 1], w,
                             it.tokenTransfers),
                it, dtMin, Tail(ws))
         ELSE forWindows(st, it, dtMin, Tail(ws))

RECURSIVE forRecords(_, _, _, _)
\* part_000:203-216  for (const it of arr)
forRecords(st, now, arr, ws) ==
  IF arr = <<>> THEN st
  ELSE LET it == Head(arr)
           ts == IF it.blockTime = Absent THEN 0 ELSE it.blockTime[1]
       IN IF ts = 0
            THEN forRecords(st, now, Tail(arr), ws)            \* continue
            ELSE forRecords(
                   forWindows(st, it, JsDiv(Num(now - ts), Num(60)), ws),
                   now, Tail(arr), ws)

RECURSIVE forAddresses(_, _, _, _)
\* part_000:198-217  for (const addr of addresses): one page per address
forAddresses(st, now, pages, ws) ==
  IF pages = <<>> THEN st
  ELSE forAddresses(forRecords(st, now, Head(pages), ws), now, Tail(pages), ws)

\* part_000:193-220  activityWindows, given the page fetched per address;
\* results is keyed by the window length
activityWindows(now, pages, windowsMinutes) ==
  LET keys == Range(windowsMinutes)
      st0 == [results |-> [w \in keys |-> [tx |-> 0, volume_usdc |-> 0,
                                           unique_actors |-> 0]],
              actorSets |-> [w \in keys |-> {}]]
      st == forAddresses(st0, now, pages, windowsMinutes)
  IN [w \in keys |->
        [st.results[w] EXCEPT !.unique_actors = Cardinality(st.actorSets[w])]]

\* metrics.activity_windows
ActivityWindows ==
  /\ tool.op = None
  /\ \E now \in Clock, pages \in SeqsUpTo(Pages, MaxAddresses),
        ws \in SeqsUpTo(WindowLengths, MaxWindows) :
       tool' = [op |-> "activityWindows",
                args |-> [now |-> now, pages |-> pages, windows_minutes |-> ws],
                ret |-> activityWindows(now, pages, ws)]
  /\ UNCHANGED clientVars


(***************************************************************************)
(* POOL RESERVES, PRICE AND FDV                                            *)
(* The result of a tool call that talks to the upstream is the record      *)
(* [error, value, requests]: the message of the error it threw ("" when it *)
(* returned), the value it returned, and the number of HTTP requests it    *)
(* dispatched.                                                             *)
(***************************************************************************)
\* well-formed (32 characters) and malformed address arguments
RESERVE_A == "ReserveA111111111111111111111111"
RESERVE_B == "ReserveB111111111111111111111111"
TOKEN_MINT == "TokenMint11111111111111111111111"
ShortAddress == "short"
ReserveAccounts == {RESERVE_A, RESERVE_B}
ReserveArgs == ReserveAccounts \cup {ShortAddress}
MintArgs == {TOKEN_MINT, ShortAddress}

\* a token account on chain: raw balance, decimals, and the mint that
\* getAccountInfo reports (absent when the parsed info is missing)
PoolAccounts ==
  [amount : {0, 2, 3}, decimals : {2, 6}, mint : Opt({USDC_MINT, "WSOL"})]
PoolSupplies == {[amount |-> 10, decimals |-> 0], [amount |-> 5, decimals |-> 1]}

\* part_000:75  assertPubkey passes (TRUE) or throws (FALSE)
assertPubkey(x) == ~(x = "" \/ Len(x) < 32)

\* the upstream rejects a request for an address no account can have
UpstreamAccepts(address) == Len(address) >= 32

\* part_000:50-67  requests one rpc() call dispatches: one when the upstream
\* answers, one per loop turn when every attempt throws
rpcRequests(ok) == IF ok THEN 1 ELSE RPC_MAX_RETRIES + 1

\* part_000:93-96  getTokenAccountBalance, given the account
getTokenAccountBalance(acct) ==
  [amount |-> acct.amount, decimals |-> acct.decimals,
   ui |-> uiFromRaw(acct.amount, acct.decimals)]

\* part_000:106-116  poolReserves after its four lookups: ax, ay are the
\* balances and mintX, mintY are ix?.mint, iy?.mint
poolReserves(ax, ay, mintX, mintY) ==
  LET r0 == [usdc |-> ax, tok |-> ay, tokMint |-> mintY, usdcMint |-> mintX]
      r1 == IF mintY = <<USDC_MINT>>
              THEN [usdc |-> ay, tok |-> ax, tokMint |-> mintX, usdcMint |-> mintY]
              ELSE r0
      r2 == IF mintX = <<USDC_MINT>>
              THEN [usdc |-> ax, tok |-> ay, tokMint |-> mintY, usdcMint |-> mintX]
              ELSE r1
  IN IF r2.usdcMint = Absent /\ ay.decimals = 6 /\ ax.decimals # 6
       THEN [r2 EXCEPT !.usdc = ay, !.tok = ax]
       ELSE r2

Thrown(msg, n) == [error |-> msg, value |-> Absent, requests |-> n]
Returned(v, n) == [error |-> "", value |-> <<v>>, requests |-> n]

\* part_000:118-125  priceAndFDVFromReserves against the chain state
\* (accounts: reserve address -> account, supply: the getTokenSupply answer)
priceAndFDVFromReserves(tokenMint, reserveX, reserveY, accounts, supply) ==
  LET okX == UpstreamAccepts(reserveX)
      okY == UpstreamAccepts(reserveY)
      nBal == rpcRequests(okX) + rpcRequests(okY)
  IN IF ~(okX /\ okY)
       THEN Thrown("rpc getTokenAccountBalance error", nBal)
       ELSE
         LET ax == getTokenAccountBalance(accounts[reserveX])
             ay == getTokenAccountBalance(accounts[reserveY])
             pr == poolReserves(ax, ay, accounts[reserveX].mint,
                                accounts[reserveY].mint)
             nInfo == nBal + rpcRequests(TRUE) + rpcRequests(TRUE)
         IN IF pr.tok.ui.num <= 0 \/ pr.usdc.ui.num <= 0
              THEN Thrown("pool reserves are zero", nInfo)
              ELSE IF ~assertPubkey(tokenMint)
                THEN Thrown("invalid pubkey/mint", nInfo)
                ELSE
                  LET price == JsDiv(pr.usdc.ui, pr.tok.ui)
                      sup == getMintSupply(supply)
                  IN Returned([price_usd |-> price,
                               fdv_usd |-> Q(price.num * sup.ui.num,
                                             price.den * sup.ui.den),
                               total_supply |-> sup.ui,
                               pool_usdc |-> pr.usdc.ui,
                               pool_token |-> pr.tok.ui],
                              nInfo + rpcRequests(TRUE))

\* metrics.price_fdv_from_reserves
PriceFdvFromReserves ==
  /\ tool.op = None
  /\ \E token_mint \in MintArgs, reserve_x \in ReserveArgs,
        reserve_y \in ReserveArgs, accounts \in [ReserveAccounts -> PoolAccounts],
        supply \in PoolSupplies :
       tool' = [op |-> "priceAndFDVFromReserves",
                args |-> [token_mint |-> token_mint, reserve_x |-> reserve_x,
                          reserve_y |-> reserve_y, accounts |-> accounts,
                          supply |-> supply],
                ret |-> priceAndFDVFromReserves(token_mint, reserve_x,
                                                reserve_y, accounts, supply)]
  /\ UNCHANGED clientVars


(***************************************************************************)
(* TOKEN AGE                                                               *)
(***************************************************************************)
\* longest history page in the model
MaxRecords == 3
AgeClock == {172800}
\* it.blockTime of the records of the page, in the order the upstream sends
AgeBlockTimes == Opt({0, 86400, 129600})

\* part_000:223-231  tokenAgeDays, given the fetched page (its blockTimes);
\* days is null (Absent) or (now - oldest) / 86400
tokenAgeDays(now, arr) ==
  LET BlockTimeOf(k) ==
        IF k \in DOMAIN arr /\ arr[k] # Absent THEN arr[k][1] ELSE 0
      last == BlockTimeOf(Len(arr))
      first == BlockTimeOf(1)
      oldest == IF last # 0 THEN last ELSE first
  IN IF oldest = 0 THEN [days |-> Absent]
     ELSE [days |-> <<Q(now - oldest, 86400)>>]

\* one call of tokenAgeDays(address) (the function is defined but not
\* registered as a tool)
TokenAgeDays ==
  /\ tool.op = None
  /\ \E now \in AgeClock, arr \in SeqsUpTo(AgeBlockTimes, MaxRecords) :
       tool' = [op |-> "tokenAgeDays", args |-> [now |-> now, page |-> arr],
                ret |-> tokenAgeDays(now, arr)]
  /\ UNCHANGED clientVars

(***************************************************************************)
(* VIP PRESENCE AND REVIVAL                                                *)
(***************************************************************************)
VipClock == {90000}
\* blockTime of a record: missing, before, at and after now - 86400
VipBlockTimes == Opt({3000, 3600, 80000})
VipTxs == {[blockTime |-> b, tokenTransfers |-> l] :
             b \in VipBlockTimes, l \in TransferLists}
\* vip_addresses as passed, without surrounding blanks (trim leaves them
\* as they are; an empty string is dropped by filter(Boolean))
VipLists ==
  { <<>>, <<"alice">>, <<"alice", "bob">>, <<"bob", "alice">>, <<"", "carol">> }

RECURSIVE hitLegs(_, _, _)
\* part_000:298-303  the legs of one record; hits is the Map as the list of
\* its entries in insertion order
hitLegs(hits, vip, legs) ==
  IF legs = <<>> THEN hits
  ELSE LET a == Head(legs).fromUserAccount
           b == Head(legs).toUserAccount
       IN IF a \in vip \/ b \in vip
            THEN LET hit == IF a \in vip THEN a ELSE b
                     known == \E k \in DOMAIN hits : hits[k].address = hit
                 IN hitLegs(
                      IF known
                        THEN [k \in DOMAIN hits |->
                                IF hits[k].address = hit
                                  THEN [hits[k] EXCEPT !.count = @ + 1]
                                  ELSE hits[k]]
                        ELSE Append(hits, [address |-> hit, count |-> 1]),
                      vip, Tail(legs))
            ELSE hitLegs(hits, vip, Tail(legs))

RECURSIVE hitRecords(_, _, _, _)
\* part_000:296-304  for (const it of arr)
hitRecords(hits, vip, since, arr) ==
  IF arr = <<>> THEN hits
  ELSE LET it == Head(arr)
           ts == IF it.blockTime = Absent THEN 0 ELSE it.blockTime[1]
       IN IF ts < since
            THEN hitRecords(hits, vip, since, Tail(arr))       \* continue
            ELSE hitRecords(hitLegs(hits, vip, it.tokenTransfers),
                            vip, since, Tail(arr))

RECURSIVE hitAddresses(_, _, _, _)
\* part_000:292-305  for (const addr of addressesToScan): one page each
hitAddresses(hits, vip, since, pages) ==
  IF pages = <<>> THEN hits
  ELSE hitAddresses(hitRecords(hits, vip, since, Head(pages)),
                    vip, since, Tail(pages))

\* part_000:287-306  vipWalletsPresence, given the page fetched per address
vipWalletsPresence(now, vipAddresses, pages) ==
  LET since == now - 86400
      vip == Range(vipAddresses) \ {""}
      hits == hitAddresses(<<>>, vip, since, pages)
  IN [vip_count |-> Len(hits), vip_hits |-> hits]

\* filters.vip_wallets_presence
VipWalletsPresence ==
  /\ tool.op = None
  /\ \E now \in VipClock, vips \in VipLists,
        pages \in SeqsUpTo(SeqsUpTo(VipTxs, 1), MaxAddresses) :
       tool' = [op |-> "vipWalletsPresence",
                args |-> [now |-> now, vip_addresses |-> vips, pages |-> pages],
                ret |-> vipWalletsPresence(now, vips, pages)]
  /\ UNCHANGED clientVars

RevivalClock == {300000}
\* blockTime of a record: missing, older than 72 h, between 24 h and 72 h
\* old, younger than 24 h
RevivalBlockTimes == Opt({10000, 200000, 299000})
RevivalTxs == {[blockTime |-> b, tokenTransfers |-> l] :
                 b \in RevivalBlockTimes, l \in TransferLists}

\* (mutant) the 72 h volume averaged per hour instead of per day
revivalMultiplier_perHour(daily, tri) ==
  JsDiv(Num(daily), JsDiv(Num(tri), Num(72)))
\* part_000:334  daily.volume_usdc / (tri.volume_usdc/3)
revivalMultiplier(daily, tri) ==
  JsDiv(Num(daily), JsDiv(Num(tri), Num(3)))

\* part_000:330-336  revivalDetector, given the page fetched per pool
revivalDetector(now, pages) ==
  LET win == activityWindows(now, pages, <<60 * 24, 60 * 72>>)
      daily == win[1440]
      tri == win[4320]
      multiplier == revivalMultiplier(daily.volume_usdc, tri.volume_usdc)
  IN [revival_active |-> JsGt(multiplier, Num(3)), multiplier |-> multiplier,
      daily_volume_usdc |-> daily.volume_usdc]

\* filters.revival_detector
RevivalDetector ==
  /\ tool.op = None
  /\ \E now \in RevivalClock,
        pages \in SeqsUpTo(SeqsUpTo(RevivalTxs, 1), MaxAddresses) :
       tool' = [op |-> "revivalDetector",
                args |-> [now |-> now, pages |-> pages],
                ret |-> revivalDetector(now, pages)]
  /\ UNCHANGED clientVars

AnalyzerNext ==
  \/ TopHolders
  \/ LpLockedPercent
  \/ ActivityWindows
  \/ PriceFdvFromReserves
  \/ TokenAgeDays
  \/ VipWalletsPresence
  \/ RevivalDetector

(***************************************************************************)
(* RISK SCORER                                                             *)
(* Percentages and counts are integers; tokenAgeDays / maxAgeDays and the  *)
(* FDV-to-market-cap ratio are in hundredths (0.25 days = 25, 1.1 = 110).  *)
(***************************************************************************)
\* the weights scoreToken uses when inputs.weights is absent
DefaultWeights ==
  [lpCount |-> 2, lpLocked |-> 2, holdersDist |-> 2, activity |-> 1,
   vip |-> 1, revival |-> 1, age |-> 1, fdvToMc |-> 1]
\* a weight vector that tells every criterion apart
OtherWeights ==
  [lpCount |-> 3, lpLocked |-> 5, holdersDist |-> 7, activity |-> 11,
   vip |-> 13, revival |-> 17, age |-> 19, fdvToMc |-> 23]

\* a weight vector with a negative entry (the schema is z.number())
NegativeWeights ==
  [lpCount |-> -1, lpLocked |-> 2, holdersDist |-> 2, activity |-> 1,
   vip |-> 1, revival |-> 1, age |-> 1, fdvToMc |-> 1]

\* the argument records of score.compute that are modelled
ScoreInputs ==
  [lpProviders : {2, 3}, lpProvidersMin : {3},
   lpLockedPct : {79, 80}, lpLockedMinPct : {80},
   concentrationTop1Pct : {20, 21}, maxTop1Pct : {20},
   concentrationTop10Pct : {50, 51}, maxTop10Pct : {50},
   traders : {9, 10}, minTraders24h : {10},
   vipHits : {0, 1}, revivalActive : BOOLEAN,
   tokenAgeDays : {25, 26}, maxAgeDays : {0, 25},
   fdvToMc : Opt({0, 89, 90, 100, 110, 111}),
   weights : Opt({DefaultWeights, OtherWeights, NegativeWeights})]

\* x || d  on a number
OrDefault(x, d) == IF x = 0 THEN d ELSE x

\* part_000:374  (inputs.fdvToMc||1): null, undefined and 0 become 1
fdvOrOne(inputs) ==
  IF inputs.fdvToMc = Absent THEN 100 ELSE OrDefault(inputs.fdvToMc[1], 100)

\* part_000:364  const w = inputs.weights || { ... }
weightsOf(inputs) ==
  IF inputs.weights = Absent THEN DefaultWeights ELSE inputs.weights[1]

\* one  if (cond) score += pts; else reasons.push(reason)  statement;
\* reason = "" for the statements that have no else branch
Step(acc, cond, pts, reason) ==
  IF cond THEN [acc EXCEPT !.score = @ + pts]
  ELSE IF reason # "" THEN [acc EXCEPT !.reasons = Append(@, reason)]
  ELSE acc

\* part_000:357-376  scoreToken
scoreToken(inputs) ==
  LET w == weightsOf(inputs)
      a0 == [score |-> 0, reasons |-> <<>>]
      a1 == Step(a0, inputs.lpProviders >= inputs.lpProvidersMin,
                 10 * w.lpCount, "LP providers below threshold")
      a2 == Step(a1, inputs.lpLockedPct >= inputs.lpLockedMinPct,
                 8 * w.lpLocked, "LP locked pct low")
      a3 == Step(a2, inputs.concentrationTop1Pct <= inputs.maxTop1Pct,
                 6 * w.holdersDist, "Top1 concentration high")
      a4 == Step(a3, inputs.concentrationTop10Pct <= inputs.maxTop10Pct,
                 6 * w.holdersDist, "Top10 concentration high")
      a5 == Step(a4, OrDefault(inputs.traders, 0) >= OrDefault(inputs.minTraders24h, 0),
                 5 * w.activity, "Low traders 24h")
      a6 == Step(a5, OrDefault(inputs.vipHits, 0) > 0, 4 * w.vip, "")
      a7 == Step(a6, inputs.revivalActive, 3 * w.revival, "")
      a8 == Step(a7, inputs.tokenAgeDays <= OrDefault(inputs.maxAgeDays, 25),
                 2 * w.age, "")
      a9 == Step(a8, fdvOrOne(inputs) >= 90 /\ fdvOrOne(inputs) <= 110,
                 4 * w.fdvToMc, "")
  IN a9

\* score.compute
ScoreCompute ==
  /\ tool.op = None
  /\ \E inputs \in ScoreInputs :
       tool' = [op |-> "scoreToken", args |-> inputs, ret |-> scoreToken(inputs)]
  /\ UNCHANGED clientVars

\* part_000:280-284  fdvToMcap(price, totalSupply, circulatingSupply = null);
\* fdv_to_mcap is null when the market cap is 0
fdvToMcap(price, totalSupply, circulatingSupply) ==
  LET fdv == price * totalSupply
      mc == price * (IF circulatingSupply = Absent THEN totalSupply
                     ELSE circulatingSupply[1])
  IN [fdv_usd |-> fdv, marketcap_usd |-> mc,
      fdv_to_mcap |-> IF mc # 0 THEN <<JsDiv(Num(fdv), Num(mc))>> ELSE Absent]

\* metrics.fdv_to_mcap
FdvToMcap ==
  /\ tool.op = None
  /\ \E price \in {0, 2}, total \in {0, 10, 11}, circ \in Opt({0, 5, 10}) :
       tool' = [op |-> "fdvToMcap",
                args |-> [price_usd |-> price, total_supply |-> total,
                          circulating_supply |-> circ],
                ret |-> fdvToMcap(price, total, circ)]
  /\ UNCHANGED clientVars

ScoreNext ==
  \/ ScoreCompute
  \/ FdvToMcap

vars == <<calls, running, tool>>

Init == ClientInit /\ tool = NoTool

\* the upstream clients under concurrent invocations
Next == ClientNext
Spec == Init /\ [][Next]_vars

\* one analyzer invocation over any upstream answers
AnalyzerSpec == Init /\ [][AnalyzerNext]_vars

\* one score.compute invocation over any argument record
ScoreSpec == Init /\ [][ScoreNext]_vars

\* Scheduling the code can rely on: an armed timer fires, Bottleneck starts
\* a queued job when a slot is free, a back-off sleep ends.  Nothing obliges
\* the upstream to answer.
FairSpec ==
  /\ Spec
  /\ \A c \in Calls :
       /\ WF_vars(TimerFire(c) /\ UNCHANGED tool)
       /\ WF_vars(Acquire(c) /\ UNCHANGED tool)
       /\ WF_vars(Wake(c) /\ UNCHANGED tool)

TypeOK ==
  /\ \A c \in Calls : calls[c].pc \in
       {"idle", "queued", "fetching", "reading", "sleeping", "done", "failed"}
  /\ \A p \in Programs : running[p] \in 0..NumCalls
  /\ \A p \in Programs :
       running[p] = Cardinality({c \in Calls : calls[c].slot
                                   /\ Program(calls[c].kind) = p})

NonDecreasing(seq) ==
  \A m, n \in DOMAIN seq : m < n => seq[m] <= seq[n]

(***************************************************************************)
(* C1  A JSON-RPC call (rpc, rpcCall, qnRpc) in which every attempt fails  *)
(* has made exactly RPC_MAX_RETRIES + 1 attempts when it fails, it never   *)
(* makes more, and the delays it slept between attempts are non-decreasing.*)
(***************************************************************************)
C1_RetryExhaustion ==
  \A c \in Calls :
    LET r == calls[c] IN
    r.kind \in RetryKinds =>
      /\ r.attempts <= RPC_MAX_RETRIES + 1
      /\ NonDecreasing(r.delays)
      /\ r.pc = "failed" =>
           /\ r.attempts = RPC_MAX_RETRIES + 1
           /\ Len(r.delays) = RPC_MAX_RETRIES
      \* a call whose attempts all failed does not end otherwise
      /\ (r.pc = "done" => r.result # Undefined)

\* each of the three functions has exhausted its retries (two at a time)
C1_Witness ==
  \E c, d \in Calls :
    /\ c # d
    /\ calls[c].kind = "rpc" /\ calls[c].pc = "failed"
    /\ calls[d].kind \in {"rpcCall", "qnRpc"} /\ calls[d].pc = "failed"
    /\ Len(calls[c].delays) = RPC_MAX_RETRIES
    /\ Len(calls[d].delays) = RPC_MAX_RETRIES

(***************************************************************************)
(* C2  When a JSON-RPC call fails, the error it throws is the error of its *)
(* last attempt; when an attempt succeeds, the call returns that attempt's *)
(* result (never undefined) and that attempt is its last one.              *)
(***************************************************************************)
C2_LastErrorSurfaced ==
  \A c \in Calls :
    LET r == calls[c] IN
    r.kind \in RetryKinds =>
      /\ r.pc = "failed" =>
           /\ r.thrown # NoErr
           /\ r.thrown = r.attemptErr
           /\ r.thrown[2] = r.attempts
      /\ r.pc = "done" => r.result = <<"result", r.attempts>>

\* a qnRpc call failed after attempts that ended with different errors,
\* and another call succeeded on a retry
C2_Witness ==
  \E c, d \in Calls :
    /\ calls[c].kind = "qnRpc" /\ calls[c].pc = "failed"
    /\ calls[c].thrown = <<"timeout", RPC_MAX_RETRIES + 1>>
    /\ calls[d].kind \in {"rpc", "rpcCall"} /\ calls[d].pc = "done"
    /\ calls[d].attempts > 1

\* upstream requests in flight, per program
InFlight(p) ==
  {c \in Calls : calls[c].pc = "fetching" /\ Program(calls[c].kind) = p}

(***************************************************************************)
(* C3  Every upstream request is in flight only while its call holds a     *)
(* slot of the program's limiter, and no program has more than             *)
(* RATE_CONCURRENCY requests in flight.                                    *)
(***************************************************************************)
C3_SlotHeldWhileInFlight ==
  /\ \A c \in Calls : calls[c].pc = "fetching" => calls[c].slot
  /\ \A p \in Programs : Cardinality(InFlight(p)) <= Max(1, RATE_CONCURRENCY)

(***************************************************************************)
(* C4  A REST call (heliusGET, dasGET, dasPOST) fails only after           *)
(* RPC_MAX_RETRIES + 1 attempts.                                           *)
(***************************************************************************)
C4_RestRetried ==
  \A c \in Calls :
    LET r == calls[c] IN
    (r.kind \in RestKinds /\ r.pc = "failed") =>
      r.attempts = RPC_MAX_RETRIES + 1

(***************************************************************************)
(* C5  Every attempt has a deadline: whatever the upstream does, a request *)
(* that is queued or in flight eventually gets an answer or ends its call  *)
(* with an error, and the limiter slot it held is released, so the calls   *)
(* queued behind it are not blocked forever.                               *)
(***************************************************************************)
C5_EveryRequestEnds ==
  \A c \in Calls :
    (calls[c].pc \in {"queued", "fetching"}) ~>
      (calls[c].pc \in {"reading", "done", "failed"} /\ ~calls[c].slot)

(***************************************************************************)
(* C7  For a non-empty holder list, any supply and any limit, the result   *)
(* of topHolders has 0 <= concentration_top1_pct <= concentration_top10_pct*)
(* <= 100 and every pct_of_supply in [0, 100].                             *)
(***************************************************************************)
C7_ConcentrationBounds ==
  (tool.op = "topHolders" /\ tool.ret.top # <<>>) =>
    LET r == tool.ret IN
    /\ JsLeq(Num(0), r.concentration_top1_pct)
    /\ JsLeq(r.concentration_top1_pct, r.concentration_top10_pct)
    /\ JsLeq(r.concentration_top10_pct, Num(100))
    /\ \A k \in DOMAIN r.top :
         /\ JsLeq(Num(0), r.top[k].pct_of_supply)
         /\ JsLeq(r.top[k].pct_of_supply, Num(100))

(***************************************************************************)
(* C8  When the total supply is 0, lpLockedPercent returns locked_pct = 0  *)
(* (the number 0, not NaN or Infinity) whatever the lockers hold, and      *)
(* topHolders reports pct_of_supply = 0 for every entry.                   *)
(***************************************************************************)
C8_ZeroSupplyIsZeroPct ==
  /\ (tool.op = "lpLockedPercent" /\ tool.args.supply.amount = 0) =>
       IsZero(tool.ret.locked_pct)
  /\ (tool.op = "topHolders" /\ tool.args.supply.amount = 0) =>
       /\ \A k \in DOMAIN tool.ret.top : IsZero(tool.ret.top[k].pct_of_supply)
       /\ IsZero(tool.ret.concentration_top1_pct)
       /\ IsZero(tool.ret.concentration_top10_pct)

\* the supply is 0 and a locker holds a positive balance
C8_Witness ==
  /\ tool.op = "lpLockedPercent"
  /\ tool.args.supply.amount = 0
  /\ tool.ret.locked_ui > 0
  /\ IsZero(tool.ret.locked_pct)

(***************************************************************************)
(* C6  For any histories and any list of window lengths, the result of     *)
(* activityWindows is monotone: for windows w1 < w2, tx(w1) <= tx(w2) and  *)
(* volume_usdc(w1) <= volume_usdc(w2).                                     *)
(***************************************************************************)
C6_WindowsMonotone ==
  tool.op = "activityWindows" =>
    \A w1, w2 \in DOMAIN tool.ret :
      w1 < w2 =>
        /\ tool.ret[w1].tx <= tool.ret[w2].tx
        /\ tool.ret[w1].volume_usdc <= tool.ret[w2].volume_usdc

\* the criteria of the scorer, their base points and the weight each uses
Criteria ==
  {"lpCount", "lpLocked", "top1", "top10", "activity", "vip", "revival",
   "age", "fdvToMc"}
BasePoints(c) ==
  CASE c = "lpCount" -> 10 [] c = "lpLocked" -> 8 [] c = "top1" -> 6
    [] c = "top10" -> 6 [] c = "activity" -> 5 [] c = "vip" -> 4
    [] c = "revival" -> 3 [] c = "age" -> 2 [] OTHER -> 4
WeightFor(c, w) ==
  CASE c = "lpCount" -> w.lpCount [] c = "lpLocked" -> w.lpLocked
    [] c \in {"top1", "top10"} -> w.holdersDist [] c = "activity" -> w.activity
    [] c = "vip" -> w.vip [] c = "revival" -> w.revival [] c = "age" -> w.age
    [] OTHER -> w.fdvToMc
\* a criterion is satisfied: the metric meets its threshold (the age
\* threshold in force is 0.25 when maxAgeDays is 0); the FDV criterion is
\* the band check on the supplied ratio
Satisfied(c, inputs) ==
  CASE c = "lpCount" -> inputs.lpProviders >= inputs.lpProvidersMin
    [] c = "lpLocked" -> inputs.lpLockedPct >= inputs.lpLockedMinPct
    [] c = "top1" -> inputs.concentrationTop1Pct <= inputs.maxTop1Pct
    [] c = "top10" -> inputs.concentrationTop10Pct <= inputs.maxTop10Pct
    [] c = "activity" -> inputs.traders >= inputs.minTraders24h
    [] c = "vip" -> inputs.vipHits > 0
    [] c = "revival" -> inputs.revivalActive
    [] c = "age" -> inputs.tokenAgeDays <= OrDefault(inputs.maxAgeDays, 25)
    [] OTHER -> /\ inputs.fdvToMc # Absent
                /\ inputs.fdvToMc[1] >= 90 /\ inputs.fdvToMc[1] <= 110

RECURSIVE SumOver(_, _, _)
SumOver(S, inputs, w) ==
  IF S = {} THEN 0
  ELSE LET c == CHOOSE x \in S : TRUE IN
       (IF Satisfied(c, inputs) THEN BasePoints(c) * WeightFor(c, w) ELSE 0)
         + SumOver(S \ {c}, inputs, w)

(***************************************************************************)
(* C10  The score of scoreToken is the sum of base_points * weight over    *)
(* exactly the satisfied criteria; when all nine are satisfied with the    *)
(* default weights and ratio 1.0, reasons is empty and the score is the    *)
(* sum over all nine (78).                                                 *)
(***************************************************************************)
C10_ScoreIsWeightedSum ==
  tool.op = "scoreToken" =>
    LET inputs == tool.args IN
    /\ tool.ret.score = SumOver(Criteria, inputs, weightsOf(inputs))
    /\ ((\A c \in Criteria : Satisfied(c, inputs))
          /\ inputs.weights = Absent /\ inputs.fdvToMc = <<100>>) =>
         (tool.ret.reasons = <<>> /\ tool.ret.score = 78)

(***************************************************************************)
(* C11  Every criterion that is not satisfied appends exactly one string   *)
(* to reasons: the length of reasons is the number of unsatisfied          *)
(* criteria.                                                               *)
(***************************************************************************)
C11_ReasonPerUnsatisfied ==
  tool.op = "scoreToken" =>
    Len(tool.ret.reasons) =
      Cardinality({c \in Criteria : ~Satisfied(c, tool.args)})

\* the points the FDV criterion added: the score less the other criteria
FdvBonus ==
  tool.ret.score
    - SumOver(Criteria \ {"fdvToMc"}, tool.args, weightsOf(tool.args))

(***************************************************************************)
(* C12  The FDV bonus 4 * w.fdvToMc is added if and only if a ratio is     *)
(* supplied and lies in [0.9, 1.1]; a ratio outside the band (0 included)  *)
(* or a null / absent ratio adds nothing.                                  *)
(***************************************************************************)
C12_FdvBandOnly ==
  tool.op = "scoreToken" =>
    FdvBonus = IF Satisfied("fdvToMc", tool.args)
                 THEN 4 * weightsOf(tool.args).fdvToMc ELSE 0

\* the inputs with criterion c made satisfied and everything else equal
MakeSatisfied(inputs, c) ==
  CASE c = "lpCount" -> [inputs EXCEPT !.lpProviders = inputs.lpProvidersMin]
    [] c = "lpLocked" -> [inputs EXCEPT !.lpLockedPct = inputs.lpLockedMinPct]
    [] c = "top1" -> [inputs EXCEPT !.concentrationTop1Pct = inputs.maxTop1Pct]
    [] c = "top10" -> [inputs EXCEPT !.concentrationTop10Pct = inputs.maxTop10Pct]
    [] c = "activity" -> [inputs EXCEPT !.traders = inputs.minTraders24h]
    [] c = "vip" -> [inputs EXCEPT !.vipHits = 1]
    [] c = "revival" -> [inputs EXCEPT !.revivalActive = TRUE]
    [] c = "age" -> [inputs EXCEPT !.tokenAgeDays = 0]
    [] OTHER -> [inputs EXCEPT !.fdvToMc = <<100>>]

(***************************************************************************)
(* C13  For every accepted input and weight vector the score is not        *)
(* negative, and making one unsatisfied criterion satisfied, everything    *)
(* else equal, does not lower the score.                                   *)
(***************************************************************************)
C13_NoCriterionSubtracts ==
  tool.op = "scoreToken" =>
    /\ tool.ret.score >= 0
    /\ \A c \in Criteria :
         ~Satisfied(c, tool.args) =>
           scoreToken(MakeSatisfied(tool.args, c)).score >= tool.ret.score

\* the two reserves the call was given, and whether its arguments are
\* addresses of accounts
PoolCall == tool.op = "priceAndFDVFromReserves"
WellFormedArgs ==
  /\ tool.args.reserve_x \in ReserveAccounts
  /\ tool.args.reserve_y \in ReserveAccounts
  /\ tool.args.token_mint = TOKEN_MINT
DistinctReserves == tool.args.reserve_x # tool.args.reserve_y
AcctX == tool.args.accounts[tool.args.reserve_x]
AcctY == tool.args.accounts[tool.args.reserve_y]
IsRef(acct) == acct.mint = <<USDC_MINT>>

(***************************************************************************)
(* C14  When neither reserve's mint is a reference asset and the two       *)
(* reserves have equal decimals, price_and_fdv fails and returns no price: *)
(* it never picks a quote side silently.                                   *)
(***************************************************************************)
C14_AmbiguousReservesFail ==
  (PoolCall /\ WellFormedArgs /\ DistinctReserves
     /\ ~IsRef(AcctX) /\ ~IsRef(AcctY)
     /\ AcctX.decimals = AcctY.decimals) =>
    (tool.ret.error # "" /\ tool.ret.value = Absent)

\* the same call with reserve_x and reserve_y exchanged
SwappedCall ==
  priceAndFDVFromReserves(tool.args.token_mint, tool.args.reserve_y,
                          tool.args.reserve_x, tool.args.accounts,
                          tool.args.supply)
\* the reserve the classification rule names as the quote side
RuleApplies ==
  \/ IsRef(AcctX) # IsRef(AcctY)
  \/ /\ ~IsRef(AcctX) /\ ~IsRef(AcctY)
     /\ (AcctX.decimals = 6) # (AcctY.decimals = 6)
RuleQuote ==
  IF IsRef(AcctX) # IsRef(AcctY)
    THEN (IF IsRef(AcctX) THEN AcctX ELSE AcctY)
    ELSE (IF AcctX.decimals = 6 THEN AcctX ELSE AcctY)

(***************************************************************************)
(* C15  The reserve whose mint is a reference asset is the quote side in   *)
(* either argument position; if neither matches, the reserve with 6        *)
(* decimals (the other's differing) is the quote side in either position;  *)
(* so exchanging reserve_x and reserve_y does not change the result.       *)
(***************************************************************************)
C15_ClassificationIgnoresPosition ==
  (PoolCall /\ WellFormedArgs /\ DistinctReserves /\ RuleApplies) =>
    /\ SwappedCall.value = tool.ret.value
    /\ tool.ret.value # Absent =>
         tool.ret.value[1].pool_usdc = getTokenAccountBalance(RuleQuote).ui

(***************************************************************************)
(* C17  A malformed address or mint argument makes the operation fail      *)
(* with the validation error before any upstream request is dispatched     *)
(* (so nothing is sent and nothing is retried).                            *)
(***************************************************************************)
C17_ValidationBeforeUpstream ==
  (PoolCall /\ ~WellFormedArgs) =>
    (tool.ret.error = "invalid pubkey/mint" /\ tool.ret.requests = 0)

\* the merged account list of a top_holders call, the accounts of it that
\* hold a positive balance, and the limit in force
MergedRows == tool.args.v1 \o tool.args.v2
Holding(row) == row.info /\ row.uiAmount # Absent /\ row.uiAmount[1] > 0
Holders == {i \in 1..Len(MergedRows) : Holding(MergedRows[i])}
LimitInForce == IF tool.args.limit = Absent THEN 20 ELSE tool.args.limit[1]
Top == tool.ret.top
\* how many holders / returned entries have owner o and balance a
HeldBy(o, a) ==
  Cardinality({i \in Holders : MergedRows[i].owner = o /\ MergedRows[i].uiAmount[1] = a})
ListedBy(o, a) ==
  Cardinality({k \in 1..Len(Top) : Top[k].owner = o /\ Top[k].amount = a})
RECURSIVE PctNumSum(_)
\* the numerators of pct_of_supply of the first n entries, added up
PctNumSum(n) ==
  IF n = 0 THEN 0 ELSE PctNumSum(n - 1) + Top[n].pct_of_supply.num

(***************************************************************************)
(* C16  top_holders returns min(limit, number of positive-balance          *)
(* accounts) entries; no entry has a zero balance; amounts are             *)
(* non-increasing; ranks are 1..n in order; every entry is an account of   *)
(* the merged list and no account left out has a larger balance than one   *)
(* included; concentration_top10_pct is the sum of pct_of_supply over the  *)
(* first min(10, n) entries.                                               *)
(***************************************************************************)
C16_TopHoldersList ==
  tool.op = "topHolders" =>
    LET n == Len(Top) IN
    /\ n = Min(LimitInForce, Cardinality(Holders))
    /\ \A k \in 1..n : Top[k].amount > 0 /\ Top[k].rank = k
    /\ \A k \in 1..(n - 1) : Top[k].amount >= Top[k + 1].amount
    /\ \A k \in 1..n :
         ListedBy(Top[k].owner, Top[k].amount) <= HeldBy(Top[k].owner, Top[k].amount)
    /\ \A i \in Holders :
         (n > 0 /\ MergedRows[i].uiAmount[1] > Top[n].amount) =>
           ListedBy(MergedRows[i].owner, MergedRows[i].uiAmount[1])
             = HeldBy(MergedRows[i].owner, MergedRows[i].uiAmount[1])
    /\ \A k \in 1..n : Top[k].pct_of_supply.den = Top[1].pct_of_supply.den
    /\ n > 0 =>
         tool.ret.concentration_top10_pct.num * Top[1].pct_of_supply.den
           = tool.ret.concentration_top10_pct.den * PctNumSum(Min(10, n))

\* C16: more than ten holders, so that the list is cut at the limit in
\* force and the top-10 sum leaves entries out
C16_Witness ==
  /\ tool.op = "topHolders"
  /\ Cardinality(Holders) > 10
  /\ Len(Top) > 10
  /\ Top[1].amount > Top[Len(Top)].amount
  /\ IsFinite(tool.ret.concentration_top10_pct)
  /\ tool.ret.concentration_top10_pct.num > 0

\* the timestamps the page of a token_age call carries
Stamps ==
  {tool.args.page[k][1] : k \in {j \in DOMAIN tool.args.page :
                                   tool.args.page[j] # Absent
                                   /\ tool.args.page[j][1] > 0}}
MinOf(S) == CHOOSE m \in S : \A x \in S : m <= x

(***************************************************************************)
(* C19  token_age is computed from the minimum timestamp over all records  *)
(* of the page, whatever their order and even when some records carry no   *)
(* timestamp; it is null only when no record of the page has a timestamp.  *)
(***************************************************************************)
C19_AgeFromEarliest ==
  tool.op = "tokenAgeDays" =>
    tool.ret.days = IF Stamps = {} THEN Absent
                    ELSE <<Q(tool.args.now - MinOf(Stamps), 86400)>>

\* the legs of a vip_presence call that lie in the trailing day, as
\* <<page, record, leg>> positions, and those that address v takes part in
InDay(it) ==
  it.blockTime # Absent /\ it.blockTime[1] >= tool.args.now - 86400
DayLegs ==
  UNION { UNION { {<<p, r, l>> : l \in DOMAIN tool.args.pages[p][r].tokenTransfers} :
                  r \in {q \in DOMAIN tool.args.pages[p] :
                           InDay(tool.args.pages[p][q])} } :
          p \in DOMAIN tool.args.pages }
LegAt(pos) == tool.args.pages[pos[1]][pos[2]].tokenTransfers[pos[3]]
LegsOf(v) ==
  {pos \in DayLegs : LegAt(pos).fromUserAccount = v \/ LegAt(pos).toUserAccount = v}
VipSet == Range(tool.args.vip_addresses) \ {""}
Reported(v) ==
  LET ks == {k \in DOMAIN tool.ret.vip_hits : tool.ret.vip_hits[k].address = v}
  IN IF ks = {} THEN 0 ELSE tool.ret.vip_hits[CHOOSE k \in ks : TRUE].count

(***************************************************************************)
(* C18  vip_presence reports for each VIP address the number of            *)
(* token-transfer legs of the trailing day in which it is the sender or    *)
(* the recipient (a leg between two VIP addresses counts for both), and    *)
(* vip_count is the number of VIP addresses with at least one such leg.    *)
(***************************************************************************)
C18_VipLegCounts ==
  tool.op = "vipWalletsPresence" =>
    /\ \A v \in VipSet : Reported(v) = Cardinality(LegsOf(v))
    /\ tool.ret.vip_count = Cardinality({v \in VipSet : LegsOf(v) # {}})

(***************************************************************************)
(* C20 (as stated)  For every history the ratio daily / (trailing72h / 3)  *)
(* of revival_detector is at most 3, and revival_active is false.          *)
(***************************************************************************)
C20_RatioAtMostThree ==
  tool.op = "revivalDetector" =>
    /\ JsLeq(tool.ret.multiplier, Num(3))
    /\ ~tool.ret.revival_active

(***************************************************************************)
(* C20 (amended)  For every history the ratio of revival_detector is       *)
(* either NaN (no USDC volume in the trailing 72 h: 0 / 0) or at most 3,   *)
(* so revival_active is false in every result.                             *)
(***************************************************************************)
C20_RevivalNeverActive ==
  tool.op = "revivalDetector" =>
    /\ tool.ret.multiplier = NaN \/ JsLeq(tool.ret.multiplier, Num(3))
    /\ tool.ret.multiplier = NaN => tool.ret.daily_volume_usdc = 0
    /\ ~tool.ret.revival_active

\* C20: the whole 72 h volume lies in the last 24 h, so the ratio is
\* exactly 3 and revival_active is still false
C20_Witness ==
  /\ tool.op = "revivalDetector"
  /\ tool.ret.daily_volume_usdc > 0
  /\ IsFinite(tool.ret.multiplier)
  /\ tool.ret.multiplier.num = 3 * tool.ret.multiplier.den
  /\ ~tool.ret.revival_active
=============================================================================
